---- MODULE Spec2Model ----
(***************************************************************************)
(* G-code modal interpreter of the CNC runners (common/gcode.py) with the  *)
(* planar (xy_runner.GCodeWrapper) and spatial (xyz_runner.GCodeWrapper3D) *)
(* variants and the drivers they talk to.                                  *)
(*                                                                         *)
(* Numbers.  Python floats are modelled as fixed-point integers counting   *)
(* thousandths (Scale): 1.0 is 1000, 25.4 is 25400.  Value texts of the    *)
(* model carry at most one fractional digit, so the inch conversion        *)
(* (x 25.4) is exact in this representation.  A value text beyond the      *)
(* range of a float parses to an infinity, which the model tells apart     *)
(* from the finite values without giving it a magnitude; the lines of the  *)
(* model carry such a value in G words only.                               *)
(***************************************************************************)
EXTENDS Integers, Sequences, FiniteSets, TLC

\* ---------------------------------------------------------------- bounds
\* longest line, in words
MaxWords == 2
\* number of exec calls in one run of the interpreter
MaxExec == 3
\* longest raw line, in pieces of text
MaxPieces == 5
\* most words after the G word of an arc line
MaxArcWords == 2
\* longest line of modal, motion and axis words mixed
MaxMixedWords == 3
\* longest list of job configurations given to the dispatcher
MaxJobs == 3

\* ------------------------------------------------------- fixed-point numbers
Scale == 10 * 10 * 10

Abs(n) == IF n < 0 THEN -n ELSE n

Sign(n) == IF n < 0 THEN -1 ELSE 1

\* int(x): truncation toward zero, the result a plain integer
Trunc(n) == Sign(n) * (Abs(n) \div Scale)

\* nearest fixed-point value of n / d (d > 0)
RoundDiv(n, d) == Sign(n) * ((2 * Abs(n) + d) \div (2 * d))

\* ----------------------------------------------------------- value texts
\* The tokenizer's value text is a sequence over these characters
\* (regex [+\-0-9\.]*).
Digits == {"0", "1", "2", "3", "4", "5", "6", "7", "8", "9"}

DigitVal(c) ==
    CASE c = "0" -> 0 [] c = "1" -> 1 [] c = "2" -> 2 [] c = "3" -> 3
      [] c = "4" -> 4 [] c = "5" -> 5 [] c = "6" -> 6 [] c = "7" -> 7
      [] c = "8" -> 8 [] c = "9" -> 9

AllDigits(s) == \A i \in 1..Len(s) : s[i] \in Digits

RECURSIVE DigitsVal(_)
\* value of a digit string read as a natural number
DigitsVal(s) ==
    IF Len(s) = 0 THEN 0
    ELSE 10 * DigitsVal(SubSeq(s, 1, Len(s) - 1)) + DigitVal(s[Len(s)])

RECURSIVE FracVal(_, _)
\* value of the digits after the point, in units of 1/Scale (w: weight of
\* the first digit); digits below 1/Scale are dropped
FracVal(s, w) ==
    IF Len(s) = 0 \/ w = 0 THEN 0
    ELSE DigitVal(s[1]) * w + FracVal(Tail(s), w \div 10)

\* A decimal integer of more than this many digits is beyond the largest
\* float (1.797...e308): float() returns an infinity for it.
FloatDigits == 309

\* the digits of s from its first digit that is not a zero
Significant(s) ==
    LET nz == {i \in 1..Len(s) : s[i] # "0"}
    IN  IF nz = {} THEN <<>>
        ELSE SubSeq(s, CHOOSE i \in nz : \A j \in nz : i <= j, Len(s))

ValueError == [ok |-> FALSE, inf |-> FALSE, val |-> 0]

\* float("999...9") = inf
Infinity == [ok |-> TRUE, inf |-> TRUE, val |-> 0]

\* float(text) on the tokenizer's alphabet: [+-]? (d+ (. d*)? | . d+)
ParseFloat(text) ==
    LET signed == Len(text) > 0 /\ text[1] \in {"+", "-"}
        sgn    == IF signed /\ text[1] = "-" THEN -1 ELSE 1
        body   == IF signed THEN Tail(text) ELSE text
        dots   == {i \in 1..Len(body) : body[i] = "."}
        dot    == IF dots = {} THEN Len(body) + 1 ELSE CHOOSE i \in dots : TRUE
        ip     == SubSeq(body, 1, dot - 1)
        fp     == SubSeq(body, dot + 1, Len(body))
    IN  IF /\ Cardinality(dots) <= 1
           /\ AllDigits(ip) /\ AllDigits(fp)
           /\ Len(ip) + Len(fp) > 0
        THEN IF Len(Significant(ip)) > FloatDigits THEN Infinity
             ELSE [ok |-> TRUE, inf |-> FALSE,
                   val |-> sgn * (DigitsVal(ip) * Scale
                                  + FracVal(fp, Scale \div 10))]
        ELSE ValueError

\* ------------------------------------------------------------------ words
\* A token of the cleaned line: l is its first character (a letter, or the
\* two characters "$H" of the homing command), v the value text after it.
Tok(l, v) == [l |-> l, v |-> v]

\* the words the lines of the model are made of
G0 == Tok("G", <<"0">>)
G1 == Tok("G", <<"1">>)
G2 == Tok("G", <<"2">>)
G3 == Tok("G", <<"3">>)
G4 == Tok("G", <<"4">>)
G20 == Tok("G", <<"2", "0">>)
G21 == Tok("G", <<"2", "1">>)
G90 == Tok("G", <<"9", "0">>)
G91 == Tok("G", <<"9", "1">>)
F600 == Tok("F", <<"6", "0", "0">>)
FNeg == Tok("F", <<"-", "5">>)
X1 == Tok("X", <<"1">>)
Y05 == Tok("Y", <<".", "5">>)
Z2 == Tok("Z", <<"2">>)
INeg == Tok("I", <<"-", ".", "1">>)
J1 == Tok("J", <<"1">>)
J01 == Tok("J", <<".", "1">>)
Home == Tok("$H", <<>>)
\* the feed of the configuration defaults, formatted by f"F{float(feed)}"
FDefault == Tok("F", <<"6", "0", "0", ".", "0">>)

FBad == Tok("F", <<"-">>)

\* words whose value text float() rejects
XBad == Tok("X", <<"-">>)

GBad == Tok("G", <<".">>)

\* words written with lowercase letters
g1 == Tok("g", <<"1">>)
g2 == Tok("g", <<"2">>)
g20 == Tok("g", <<"2", "0">>)
g91 == Tok("g", <<"9", "1">>)
f600 == Tok("f", <<"6", "0", "0">>)
x1 == Tok("x", <<"1">>)
z2 == Tok("z", <<"2">>)
ineg == Tok("i", <<"-", ".", "1">>)

\* a G word of 310 digits: its value is beyond the range of a float
GHuge == Tok("G", [i \in 1..(FloatDigits + 1) |-> "9"])

IBad == Tok("I", <<"1", ".", ".">>)

AllTokens ==
    {G0, G1, G2, G3, G4, G20, G21, G90, G91, F600, FNeg, FBad, X1, Y05, Z2,
     INeg, J1, J01, Home, FDefault, XBad, GBad, IBad, GHuge, g1, g2, g20, g91,
     f600, x1, z2, ineg}

\* float(text) for the value texts of the model, parsed once
FloatTable == [t \in {tok.v : tok \in AllTokens} |-> ParseFloat(t)]

float(text) == FloatTable[text]

\* the letter compared as it is written
Upper_AsWritten(c) == c

\* str.upper() on the letters the model uses
Upper(c) ==
    CASE c = "g" -> "G" [] c = "f" -> "F" [] c = "x" -> "X" [] c = "y" -> "Y"
      [] c = "z" -> "Z" [] c = "i" -> "I" [] c = "j" -> "J"
      [] OTHER -> c

\* the homing command recognised only when it is the whole line
IsHomeAlone(line) == Len(line) = 1 /\ line[1].l = "$H"

\* line.startswith("$H")
StartsWithHome(line) == Len(line) > 0 /\ line[1].l = "$H"

\* re.findall(r"[A-Za-z][+\-0-9\.]*", line): "$" matches nothing, so a "$H"
\* token further down the line is read as the word H
FindWords(line) ==
    [i \in 1..Len(line) |->
        IF line[i].l = "$H" THEN Tok("H", line[i].v) ELSE line[i]]

\* --------------------------------------------------------------- raw text
\* A raw line is a sequence of characters (strings of length one).
Letters ==
    {"A", "B", "C", "D", "E", "F", "G", "H", "I", "J", "K", "L", "M", "N",
     "O", "P", "Q", "R", "S", "T", "U", "V", "W", "X", "Y", "Z",
     "a", "b", "c", "d", "e", "f", "g", "h", "i", "j", "k", "l", "m", "n",
     "o", "p", "q", "r", "s", "t", "u", "v", "w", "x", "y", "z"}

\* the characters of a value text: [+\-0-9\.]
ValueChars == {"+", "-", "."} \cup Digits

Whitespace == {" ", "\t"}

MinOf(S) == CHOOSE x \in S : \A y \in S : x <= y

MaxOf(S) == CHOOSE x \in S : \A y \in S : y <= x

RECURSIVE RemoveSpansFrom(_, _)
\* re.sub(r"\(.*?\)", "", source): from each "(" that has a ")" after it,
\* the text up to the first such ")" is dropped
RemoveSpansFrom(s, i) ==
    IF i > Len(s) THEN <<>>
    ELSE LET close == {j \in (i + 1)..Len(s) : s[j] = ")"}
         IN  IF s[i] = "(" /\ close # {}
             THEN RemoveSpansFrom(s, MinOf(close) + 1)
             ELSE <<s[i]>> \o RemoveSpansFrom(s, i + 1)

\* source.split(";", 1)[0]
BeforeSemicolon(s) ==
    LET semi == {j \in 1..Len(s) : s[j] = ";"}
    IN  IF semi = {} THEN s ELSE SubSeq(s, 1, MinOf(semi) - 1)

\* the spans dropped but the ";" comment kept
StripSpansOnly(source) == RemoveSpansFrom(source, 1)

_strip_comment(source) == BeforeSemicolon(RemoveSpansFrom(source, 1))

\* str.strip()
strip(s) ==
    LET ink == {j \in 1..Len(s) : s[j] \notin Whitespace}
    IN  IF ink = {} THEN <<>> ELSE SubSeq(s, MinOf(ink), MaxOf(ink))

RECURSIVE FindAllFrom(_, _)
\* re.findall(r"[A-Za-z][+\-0-9\.]*", line) from character i on
FindAllFrom(s, i) ==
    IF i > Len(s) THEN <<>>
    ELSE IF s[i] \in Letters
    THEN LET stop == {j \in (i + 1)..Len(s) : s[j] \notin ValueChars}
             e    == IF stop = {} THEN Len(s) ELSE MinOf(stop) - 1
         IN  <<Tok(s[i], SubSeq(s, i + 1, e))>> \o FindAllFrom(s, e + 1)
    ELSE FindAllFrom(s, i + 1)

\* the cleaned line of exec as tokens: self._strip_comment(line).strip(),
\* a leading "$H" kept as the homing token, the rest split into words
Cleaned(rawline) ==
    LET c == strip(_strip_comment(rawline))
    IN  IF Len(c) >= 2 /\ c[1] = "$" /\ c[2] = "H"
        THEN <<Home>> \o FindAllFrom(c, 3)
        ELSE FindAllFrom(c, 1)

\* the text of a word, and of a line of words written with single spaces
WordText(w) == (IF w.l = "$H" THEN <<"$", "H">> ELSE <<w.l>>) \o w.v

RECURSIVE TextFrom(_, _)
TextFrom(l, i) ==
    IF i > Len(l) THEN <<>>
    ELSE (IF i > 1 THEN <<" ">> ELSE <<>>) \o WordText(l[i])
             \o TextFrom(l, i + 1)

Text(l) == TextFrom(l, 1)

\* ------------------------------------------------------- variants, drivers
Variants == {"planar", "spatial"}

\* linear_axes, in the order of the tuple
linear_axes(variant) ==
    IF variant = "planar" THEN <<"X", "Y">> ELSE <<"X", "Y", "Z">>

AxisSet(variant) == {linear_axes(variant)[i] : i \in 1..Len(linear_axes(variant))}

extra_params(variant) ==
    IF variant = "planar" THEN {"I", "J"} ELSE {"I", "J", "K"}

motion_g_codes(variant) ==
    IF variant = "planar" THEN {0, 1, 2, 3} ELSE {0, 1}

\* "sim": SimDriver / SimDriver3D, records the moves and tracks its position.
\* "machine": a device driver (create_actual_driver, ChuoDriver): every
\*            call may raise.
\* "bare": a driver object that only has move_abs.
DriverKinds == {"sim", "machine", "bare"}

\* the optional methods taken to be there on every driver
HasAttr_Always(drv, name) == TRUE

\* hasattr(self.drv, name) for the optional methods
HasAttr(drv, name) == drv.kind # "bare"

ZeroPos(variant) == [a \in AxisSet(variant) |-> 0]

\* BaseModalState / ModalState2D / ModalState3D defaults
ModalState(variant) ==
    [units_mm |-> TRUE, absolute |-> TRUE, feed |-> 1200 * Scale,
     pos |-> ZeroPos(variant)]

\* SimDriver.__init__
NewDriver(kind, variant) == [kind |-> kind, cur |-> ZeroPos(variant)]

MoveAbs(axes, feed, rapid) ==
    [op |-> "move_abs", axes |-> axes, feed |-> feed, rapid |-> rapid]

Call(op) == [op |-> op]

\* What a call that returns does to the driver: SimDriver.home and
\* SimDriver.move_abs keep the current position; the unit calls do nothing.
DriverStep(drv, call) ==
    IF drv.kind # "sim" THEN drv
    ELSE IF call.op = "home"
         THEN [drv EXCEPT !.cur = [a \in DOMAIN drv.cur |-> 0]]
    ELSE IF call.op = "move_abs"
         THEN [drv EXCEPT !.cur = [a \in DOMAIN drv.cur |->
                  IF a \in DOMAIN call.axes THEN call.axes[a] ELSE drv.cur[a]]]
    ELSE drv

\* ------------------------------------------------------ interpreter run
\* The run of one exec call: the modal state m, the driver, the driver calls
\* made so far on this line, the exception in flight (exc, with the code of
\* an unsupported-motion error), the G-code _handle_motion dispatched on,
\* and failAt, the number of the driver call of this line that raises
\* (0: none does).
NoCode == [set |-> FALSE, val |-> 0]

SomeCode(g) == [set |-> TRUE, val |-> g]

Start(m, drv, variant, failAt) ==
    [m |-> m, drv |-> drv, variant |-> variant, calls |-> <<>>,
     exc |-> "none", code |-> 0, gcode |-> NoCode, failAt |-> failAt]

\* self.drv.<op>(...): the call is logged; it raises when it is the call
\* chosen to fail, and otherwise acts on the driver
DrvCall(st, call) ==
    LET log == Append(st.calls, call)
    IN  IF st.failAt = Len(log)
        THEN [st EXCEPT !.calls = log, !.exc = "driver_error"]
        ELSE [st EXCEPT !.calls = log, !.drv = DriverStep(st.drv, call)]

\* G20 with the stored feed and position converted to inches
SetUnitsInch_Rescaling(st) ==
    LET s1 == [st EXCEPT !.m.units_mm = FALSE,
                         !.m.feed = RoundDiv(st.m.feed * 10, 254),
                         !.m.pos = [a \in DOMAIN st.m.pos |->
                                       RoundDiv(st.m.pos[a] * 10, 254)]]
    IN  IF HasAttr(s1.drv, "set_units_inch")
        THEN DrvCall(s1, Call("set_units_inch")) ELSE s1

\* self.m.units_mm = False, then the driver call when the driver has it
SetUnitsInch(st) ==
    LET s1 == [st EXCEPT !.m.units_mm = FALSE]
    IN  IF HasAttr(s1.drv, "set_units_inch")
        THEN DrvCall(s1, Call("set_units_inch")) ELSE s1

\* G21 handled without the flag assignment: the driver call alone
SetUnitsMm_CallOnly(st) ==
    IF HasAttr(st.drv, "set_units_mm")
    THEN DrvCall(st, Call("set_units_mm")) ELSE st

\* self.m.units_mm = True, then the driver call when the driver has it
SetUnitsMm(st) ==
    LET s1 == [st EXCEPT !.m.units_mm = TRUE]
    IN  IF HasAttr(s1.drv, "set_units_mm")
        THEN DrvCall(s1, Call("set_units_mm")) ELSE s1

\* the loop of _apply_modal with G90 flipping the mode instead of setting it
ApplyModalWord_Toggle(st, w) ==
    LET g == float(w.v)
    IN  IF Upper(w.l) # "G" THEN st
        ELSE IF ~g.ok \/ g.inf THEN st
        ELSE IF g.val = 20 * Scale THEN SetUnitsInch(st)
        ELSE IF g.val = 21 * Scale THEN SetUnitsMm(st)
        ELSE IF g.val = 90 * Scale
        THEN [st EXCEPT !.m.absolute = ~st.m.absolute]
        ELSE IF g.val = 91 * Scale THEN [st EXCEPT !.m.absolute = FALSE]
        ELSE st

\* one iteration of the loop of _apply_modal
ApplyModalWord(st, w) ==
    LET g == float(w.v)
    IN  IF Upper(w.l) # "G" THEN st
        ELSE IF ~g.ok \/ g.inf THEN st
        ELSE IF g.val = 20 * Scale THEN SetUnitsInch(st)
        ELSE IF g.val = 21 * Scale THEN SetUnitsMm(st)
        ELSE IF g.val = 90 * Scale THEN [st EXCEPT !.m.absolute = TRUE]
        ELSE IF g.val = 91 * Scale THEN [st EXCEPT !.m.absolute = FALSE]
        ELSE st

RECURSIVE ApplyModalFrom(_, _, _)
ApplyModalFrom(st, words, i) ==
    IF i > Len(words) \/ st.exc # "none" THEN st
    ELSE ApplyModalFrom(ApplyModalWord(st, words[i]), words, i + 1)

_apply_modal(st, words) == ApplyModalFrom(st, words, 1)

\* one iteration of the loop of _update_feed
UpdateFeedWord(st, w) ==
    LET f == float(w.v)
    IN  IF Upper(w.l) = "F" /\ f.ok THEN [st EXCEPT !.m.feed = f.val] ELSE st

RECURSIVE UpdateFeedFrom(_, _, _)
UpdateFeedFrom(st, words, i) ==
    IF i > Len(words) THEN st
    ELSE UpdateFeedFrom(UpdateFeedWord(st, words[i]), words, i + 1)

_update_feed(st, words) == UpdateFeedFrom(st, words, 1)

\* The loop of _contains_motion from word i on: "yes" at the first motion
\* code, "no" at the end of the words, "overflow" when int() is given an
\* infinity (OverflowError, which the except ValueError clause lets through).
RECURSIVE ContainsMotionFrom(_, _, _)
ContainsMotionFrom(variant, words, i) ==
    IF i > Len(words) THEN "no"
    ELSE LET g == float(words[i].v)
         IN  IF Upper(words[i].l) # "G" \/ ~g.ok
             THEN ContainsMotionFrom(variant, words, i + 1)
             ELSE IF g.inf THEN "overflow"
             ELSE IF Trunc(g.val) \in motion_g_codes(variant) THEN "yes"
             ELSE ContainsMotionFrom(variant, words, i + 1)

_contains_motion(variant, words) == ContainsMotionFrom(variant, words, 1)

_unit_to_mm(m, value) ==
    IF m.units_mm THEN value ELSE RoundDiv(value * 254, 10)

\* --------------------------------------------------------------- motion
NoParams == [k \in {} |-> 0]

\* params[code] = value
SetParam(params, code, value) ==
    [k \in DOMAIN params \cup {code} |-> IF k = code THEN value ELSE params[k]]

\* the scan with a value that does not parse stored as zero
ScanWord_ZeroOnError(variant, acc, w) ==
    LET code == Upper(w.l)
        f    == float(w.v)
    IN  IF code = "G"
        THEN IF ~f.ok THEN acc
             ELSE IF f.inf THEN [acc EXCEPT !.overflow = TRUE]
             ELSE [acc EXCEPT !.gcode = SomeCode(Trunc(f.val))]
        ELSE IF code \in AxisSet(variant) \/ code \in extra_params(variant)
                \/ code = "F"
        THEN [acc EXCEPT !.params = SetParam(acc.params, code, f.val)]
        ELSE acc

\* one iteration of the scan of _handle_motion; acc = [gcode, params] and
\* overflow, set when int() is given an infinity
ScanWord(variant, acc, w) ==
    LET code == Upper(w.l)
        f    == float(w.v)
    IN  IF code = "G"
        THEN IF ~f.ok THEN acc
             ELSE IF f.inf THEN [acc EXCEPT !.overflow = TRUE]
             ELSE [acc EXCEPT !.gcode = SomeCode(Trunc(f.val))]
        ELSE IF code \in AxisSet(variant) \/ code \in extra_params(variant)
                \/ code = "F"
        THEN IF f.ok THEN [acc EXCEPT !.params = SetParam(acc.params, code, f.val)]
             ELSE acc
        ELSE acc

RECURSIVE ScanFrom(_, _, _, _)
ScanFrom(variant, acc, words, i) ==
    IF i > Len(words) \/ acc.overflow THEN acc
    ELSE ScanFrom(variant, ScanWord(variant, acc, words[i]), words, i + 1)

\* the gcode and params _handle_motion collects from the words
ScanMotion(variant, words) ==
    ScanFrom(variant, [gcode |-> NoCode, params |-> NoParams,
                       overflow |-> FALSE], words, 1)

\* a relative target taken from the word alone, without the position
AxisTarget_NoOffset(m, params, axis) ==
    IF axis \in DOMAIN params THEN _unit_to_mm(m, params[axis])
    ELSE m.pos[axis]

\* the target of one axis in _handle_linear_move
AxisTarget(m, params, axis) ==
    IF axis \in DOMAIN params
    THEN IF m.absolute THEN _unit_to_mm(m, params[axis])
         ELSE m.pos[axis] + _unit_to_mm(m, params[axis])
    ELSE m.pos[axis]

\* the F word of the line passed on without the unit conversion
ResolveFeed_Raw(m, params) ==
    IF "F" \in DOMAIN params THEN params["F"] ELSE m.feed

\* feed_value of _handle_linear_move, feed of the arc
ResolveFeed(m, params) ==
    IF "F" \in DOMAIN params THEN _unit_to_mm(m, params["F"]) ELSE m.feed

\* the position assigned whether or not the driver call returned
CommitPosition_Always(st, targets) == [st EXCEPT !.m.pos = targets]

\* for axis, value in targets.items(): setattr(self.m, ..., value)
CommitPosition(st, targets) ==
    IF st.exc # "none" THEN st ELSE [st EXCEPT !.m.pos = targets]

\* the straight move with the rapid flag raised for G1 instead of G0
LinearMove_RapidForG1(st, gcode, params) ==
    LET targets == [a \in AxisSet(st.variant) |-> AxisTarget(st.m, params, a)]
        feed    == ResolveFeed(st.m, params)
        sent    == DrvCall(st, MoveAbs(targets, feed, gcode = 1))
    IN  CommitPosition(sent, targets)

_handle_linear_move(st, gcode, params) ==
    LET targets == [a \in AxisSet(st.variant) |-> AxisTarget(st.m, params, a)]
        feed    == ResolveFeed(st.m, params)
        sent    == DrvCall(st, MoveAbs(targets, feed, gcode = 0))
    IN  CommitPosition(sent, targets)

\* LinearGCodeInterpreter._handle_extended_motion: gcode None returns,
\* anything else raises NotImplementedError carrying the code
\* the error raised without the code in its message
RaiseUnsupported_CodeLost(st, gcode) ==
    IF ~gcode.set THEN st
    ELSE [st EXCEPT !.exc = "unsupported"]

\* LinearGCodeInterpreter._handle_extended_motion: nothing to do without a
\* code, NotImplementedError(f"G{gcode} ...") with one
RaiseUnsupported(st, gcode) ==
    IF ~gcode.set THEN st
    ELSE [st EXCEPT !.exc = "unsupported", !.code = gcode.val]

\* ----------------------------------------------------------- math module
\* Angles are fixed-point too, in units of 1/AngScale radian; cos and sin
\* return values in units of 1/AngScale.
AngScale == 10 * 10 * 10 * 10

\* math.pi
Pi == 31416

HalfPi == Pi \div 2

QuarterPi == Pi \div 4

TwoPi == 2 * Pi

\* Taylor polynomials on [0, pi/4]
SinQ(x) ==
    LET x2 == (x * x) \div AngScale
        t3 == ((x * x2) \div AngScale) \div 6
        t5 == ((t3 * x2) \div AngScale) \div 20
        t7 == ((t5 * x2) \div AngScale) \div 42
    IN  x - t3 + t5 - t7

CosQ(x) ==
    LET x2 == (x * x) \div AngScale
        c2 == x2 \div 2
        c4 == ((c2 * x2) \div AngScale) \div 12
        c6 == ((c4 * x2) \div AngScale) \div 30
        c8 == ((c6 * x2) \div AngScale) \div 56
    IN  AngScale - c2 + c4 - c6 + c8

\* sine on [0, pi/2]
Sin0(x) == IF x <= QuarterPi THEN SinQ(x) ELSE CosQ(HalfPi - x)

\* math.cos
cos(th) ==
    LET t == th % TwoPi
    IN  IF t <= HalfPi THEN Sin0(HalfPi - t)
        ELSE IF t <= Pi THEN -Sin0(t - HalfPi)
        ELSE IF t <= Pi + HalfPi THEN -Sin0(Pi + HalfPi - t)
        ELSE Sin0(t - Pi - HalfPi)

\* math.sin
sin(th) ==
    LET t == th % TwoPi
    IN  IF t <= HalfPi THEN Sin0(t)
        ELSE IF t <= Pi THEN Sin0(Pi - t)
        ELSE IF t <= Pi + HalfPi THEN -Sin0(t - Pi)
        ELSE -Sin0(TwoPi - t)

\* atan(n / d) for 0 <= n <= d, d > 0: odd minimax polynomial of degree 9
AtanQ(n, d) ==
    LET q  == (n * AngScale) \div d
        q2 == (q * q) \div AngScale
        p1 == 208
        p2 == (p1 * q2) \div AngScale - 851
        p3 == (p2 * q2) \div AngScale + 1801
        p4 == (p3 * q2) \div AngScale - 3303
        p5 == (p4 * q2) \div AngScale + 9999
    IN  IF n = d THEN QuarterPi ELSE (q * p5) \div AngScale

\* math.atan2(y, x), in (-pi, pi]
atan2(y, x) ==
    LET ax == Abs(x)
        ay == Abs(y)
        a  == IF ax = 0 /\ ay = 0 THEN 0
              ELSE IF ay <= ax THEN AtanQ(ay, ax)
              ELSE HalfPi - AtanQ(ax, ay)
    IN  IF x >= 0 THEN (IF y >= 0 THEN a ELSE -a)
        ELSE (IF y >= 0 THEN Pi - a ELSE a - Pi)

RECURSIVE SqrtBetween(_, _, _)
\* the largest r in lo..hi with r * r <= n
SqrtBetween(n, lo, hi) ==
    IF lo >= hi THEN lo
    ELSE LET mid == (lo + hi + 1) \div 2
         IN  IF mid * mid <= n THEN SqrtBetween(n, mid, hi)
             ELSE SqrtBetween(n, lo, mid - 1)

\* integer square root (n < 2^31, so the root is below 46341)
Isqrt(n) == SqrtBetween(n, 0, 46340)

\* math.hypot
hypot(x, y) == Isqrt(x * x + y * y)

\* math.ceil(a / b) for a >= 0, b > 0
CeilDiv(a, b) == (a + b - 1) \div b

Max(a, b) == IF a >= b THEN a ELSE b

\* ------------------------------------------------------------------ arcs
\* e = 0.02, the chord tolerance
E == 20

\* the end point of the arc on one axis (ex, ey)
ArcEnd(m, params, axis) ==
    LET delta == IF axis \in DOMAIN params
                 THEN [set |-> TRUE, val |-> _unit_to_mm(m, params[axis])]
                 ELSE [set |-> FALSE, val |-> 0]
    IN  IF m.absolute
        THEN (IF delta.set THEN delta.val ELSE m.pos[axis])
        ELSE m.pos[axis] + (IF delta.set THEN delta.val ELSE 0)

\* the I/J word read as a coordinate of the centre in absolute mode
ArcOffset_Absolute(m, params, letter) ==
    LET off == _unit_to_mm(m, IF letter \in DOMAIN params THEN params[letter]
                              ELSE 0)
    IN  IF m.absolute /\ letter \in DOMAIN params
        THEN off - m.pos[IF letter = "I" THEN "X" ELSE "Y"]
        ELSE off

\* i_off, j_off: params.get(letter, 0.0) through the unit scale
ArcOffset(m, params, letter) ==
    _unit_to_mm(m, IF letter \in DOMAIN params THEN params[letter] ELSE 0)

\* the sweep left as the difference of the two angles
ArcSweep_Raw(cw, start, end) == end - start

\* the sweep turned round only when it has the wrong sign
ArcSweep_Strict(cw, start, end) ==
    LET sweep == end - start
    IN  IF cw THEN (IF sweep > 0 THEN sweep - TwoPi ELSE sweep)
        ELSE (IF sweep < 0 THEN sweep + TwoPi ELSE sweep)

\* the sweep, its sign forced by the direction
ArcSweep(cw, start, end) ==
    LET sweep == end - start
    IN  IF cw THEN (IF sweep >= 0 THEN sweep - TwoPi ELSE sweep)
        ELSE (IF sweep <= 0 THEN sweep + TwoPi ELSE sweep)

\* max_d = 2 * acos(max(0, 1 - e / max(radius, 1e-9))), with
\* acos(1 - e/r) = atan2(sqrt(e * (2r - e)), r - e) for r > e
ArcMaxStep(radius) ==
    IF radius <= E THEN Pi
    ELSE 2 * atan2(Isqrt(100 * E * (2 * radius - E)), 10 * (radius - E))

\* the step count without its floor of 12
ArcSteps_NoFloor(sweep, radius) ==
    CeilDiv(Abs(sweep), Max(AngScale \div 1000, ArcMaxStep(radius)))

\* steps = max(12, ceil(abs(sweep) / max(1e-3, max_d)))
ArcSteps(sweep, radius) ==
    Max(12, CeilDiv(Abs(sweep), Max(AngScale \div 1000, ArcMaxStep(radius))))

\* the point of step k: th = start + sweep * (k / steps)
ArcPoint(cx, cy, radius, start, sweep, steps, k) ==
    LET th == start + RoundDiv(sweep * k, steps)
    IN  [X |-> cx + RoundDiv(radius * cos(th), AngScale),
         Y |-> cy + RoundDiv(radius * sin(th), AngScale)]

\* the body of the loop with the point of the step stored as the position
ArcStepCall_Tracking(st, arc, feed, k) ==
    LET p    == ArcPoint(arc.cx, arc.cy, arc.radius, arc.start, arc.sweep,
                         arc.steps, k)
        sent == DrvCall(st, MoveAbs(p, feed, FALSE))
    IN  CommitPosition(sent, p)

\* the body of the loop of the arc, step k: the point, then
\* self.drv.move_abs(x=px, y=py, feed=feed, rapid=False)
ArcStepCall(st, arc, feed, k) ==
    DrvCall(st, MoveAbs(ArcPoint(arc.cx, arc.cy, arc.radius, arc.start,
                                 arc.sweep, arc.steps, k), feed, FALSE))

RECURSIVE ArcLoop(_, _, _, _)
\* for k in range(1, steps + 1): self.drv.move_abs(x=px, y=py, ...)
ArcLoop(st, arc, feed, k) ==
    IF k > arc.steps \/ st.exc # "none" THEN st
    ELSE ArcLoop(ArcStepCall(st, arc, feed, k), arc, feed, k + 1)

\* the geometry of a G2/G3 line
ArcGeometry(m, gcode, params) ==
    LET ex     == ArcEnd(m, params, "X")
        ey     == ArcEnd(m, params, "Y")
        cx     == m.pos["X"] + ArcOffset(m, params, "I")
        cy     == m.pos["Y"] + ArcOffset(m, params, "J")
        start  == atan2(m.pos["Y"] - cy, m.pos["X"] - cx)
        end    == atan2(ey - cy, ex - cx)
        sweep  == ArcSweep(gcode = 2, start, end)
        radius == hypot(m.pos["X"] - cx, m.pos["Y"] - cy)
    IN  [ex |-> ex, ey |-> ey, cx |-> cx, cy |-> cy, start |-> start,
         end |-> end, sweep |-> sweep, radius |-> radius,
         steps |-> ArcSteps(sweep, radius)]

\* GCodeWrapper._handle_extended_motion for gcode 2 or 3
HandleArc(st, gcode, params) ==
    LET arc  == ArcGeometry(st.m, gcode, params)
        feed == ResolveFeed(st.m, params)
        sent == ArcLoop(st, arc, feed, 1)
    IN  CommitPosition(sent, [X |-> arc.ex, Y |-> arc.ey])

\* _handle_extended_motion of the variant: GCodeWrapper draws the arcs
\* and hands any other code to the base class; GCodeWrapper3D always does
_handle_extended_motion(st, gcode, params) ==
    IF st.variant = "planar" /\ gcode.set /\ gcode.val \in {2, 3}
    THEN HandleArc(st, gcode.val, params)
    ELSE RaiseUnsupported(st, gcode)

_handle_motion(st, words) ==
    LET scan == ScanMotion(st.variant, words)
        s1   == [st EXCEPT !.gcode = scan.gcode]
    IN  IF scan.overflow THEN [s1 EXCEPT !.exc = "overflow_error"]
        ELSE IF scan.gcode.set /\ scan.gcode.val \in {0, 1}
        THEN _handle_linear_move(s1, scan.gcode.val, scan.params)
        ELSE _handle_extended_motion(s1, scan.gcode, scan.params)

\* exec with the motion run where the modal words have not been applied yet
exec_MotionFirst(st, line) ==
    IF Len(line) = 0 THEN st
    ELSE IF StartsWithHome(line)
    THEN (IF HasAttr(st.drv, "home") THEN DrvCall(st, Call("home")) ELSE st)
    ELSE LET words == FindWords(line)
             found == _contains_motion(st.variant, words)
             s0    == IF found = "yes" THEN _handle_motion(st, words) ELSE st
             s1    == _apply_modal(s0, words)
             s2    == _update_feed(s1, words)
         IN  IF s0.exc # "none" THEN s0
             ELSE IF s1.exc # "none" THEN s1
             ELSE IF found = "overflow"
             THEN [s2 EXCEPT !.exc = "overflow_error"]
             ELSE s2

\* exec with the motion mode kept from line to line: words without a motion
\* code are run as a G1 move
exec_ModalMotion(st, line) ==
    IF Len(line) = 0 THEN st
    ELSE IF StartsWithHome(line)
    THEN (IF HasAttr(st.drv, "home") THEN DrvCall(st, Call("home")) ELSE st)
    ELSE LET words == FindWords(line)
             s1    == _apply_modal(st, words)
             s2    == _update_feed(s1, words)
             found == _contains_motion(st.variant, words)
         IN  IF s1.exc # "none" THEN s1
             ELSE IF found = "overflow"
             THEN [s2 EXCEPT !.exc = "overflow_error"]
             ELSE IF found = "yes" THEN _handle_motion(s2, words)
             ELSE _handle_linear_move(s2, 1,
                                      ScanMotion(st.variant, words).params)

\* BaseGCodeInterpreter.exec on a cleaned line
exec(st, line) ==
    IF Len(line) = 0 THEN st
    ELSE IF StartsWithHome(line)
    THEN (IF HasAttr(st.drv, "home") THEN DrvCall(st, Call("home")) ELSE st)
    ELSE LET words == FindWords(line)
             s1    == _apply_modal(st, words)
             s2    == _update_feed(s1, words)
             found == _contains_motion(st.variant, words)
         IN  IF s1.exc # "none" THEN s1
             ELSE IF found = "overflow"
             THEN [s2 EXCEPT !.exc = "overflow_error"]
             ELSE IF found = "yes" THEN _handle_motion(s2, words)
             ELSE s2

\* -------------------------------------------------------- state machine
VARIABLES
    variant,   \* which interpreter class this is: "planar" or "spatial"
    drv,       \* the driver bound to the interpreter
    m,         \* self.m, the modal state
    phase,     \* "new" after construction; "units", "mode" while the runner
               \* applies its defaults; "ready" afterwards
    nexec,     \* number of lines the caller has executed
    raw,       \* the text given to the last exec call
    line,      \* the cleaned line of the last exec call
    failAt,    \* which driver call of that line raised (0: none)
    pre,       \* the modal state before that call
    calls,     \* the driver calls of that call, in order
    exc,       \* how that call ended: "none", "driver_error", "unsupported",
               \* "overflow_error"
    code,      \* the code carried by the unsupported-motion error
    gcode,     \* the G-code _handle_motion dispatched on, if it ran
    arc,       \* the local variables of the arc handler while its loop runs
    job,       \* the job dispatcher: its list, its place in it, what it ran
    lastUnit   \* history: the last G20/G21 word processed (0: none yet)

vars ==
    <<variant, drv, m, phase, nexec, raw, line, failAt, pre, calls, exc,
      code, gcode, arc, job, lastUnit>>

\* no arc under way
NoArc ==
    [ex |-> 0, ey |-> 0, cx |-> 0, cy |-> 0, start |-> 0, end |-> 0,
     sweep |-> 0, radius |-> 0, steps |-> 0, feed |-> 0]

\* the dispatcher before dispatch_jobs is called
NoDispatch ==
    [jobs |-> <<>>, taken |-> 0, executed |-> <<>>, raised |-> FALSE,
     active |-> FALSE, called |-> FALSE]

LinesOver(tokens) == UNION {[1..n -> tokens] : n \in 0..MaxWords}

\* the G20/G21 words of a line, as the numbers 20 and 21, in line order
UnitWords(l) ==
    IF Len(l) = 0 \/ StartsWithHome(l) THEN <<>>
    ELSE LET isUnit(w) == /\ Upper(w.l) = "G"
                          /\ float(w.v).ok
                          /\ float(w.v).val \in {20 * Scale, 21 * Scale}
             ws == SelectSeq(FindWords(l), isUnit)
         IN  [i \in 1..Len(ws) |-> Trunc(float(ws[i].v).val)]

\* the unit words reached before the f-th driver call raised: on a driver
\* with the unit calls, the first calls of a line are those of its unit words
ProcessedUnitWords(l, f, d) ==
    LET uw == UnitWords(l)
    IN  IF HasAttr(d, "set_units_mm") /\ f > 0 /\ f <= Len(uw)
        THEN SubSeq(uw, 1, f) ELSE uw

LastUnitAfter(last, l, f, d) ==
    LET p == ProcessedUnitWords(l, f, d)
    IN  IF Len(p) = 0 THEN last ELSE p[Len(p)]

InitOf(variants, kinds) ==
    /\ variant \in variants
    /\ \E kind \in kinds : drv = NewDriver(kind, variant)
    /\ m = ModalState(variant)
    /\ phase = "new"
    /\ nexec = 0
    /\ raw = <<>>
    /\ line = <<>>
    /\ failAt = 0
    /\ pre = m
    /\ calls = <<>>
    /\ exc = "none"
    /\ code = 0
    /\ gcode = NoCode
    /\ arc = NoArc
    /\ job = NoDispatch
    /\ lastUnit = 0

\* the state after g.exec(l) returned or raised, r being the run
Observe(l, f, before, last, r) ==
    /\ line' = l
    /\ failAt' = f
    /\ pre' = before
    /\ m' = r.m
    /\ drv' = r.drv
    /\ calls' = r.calls
    /\ exc' = r.exc
    /\ code' = r.code
    /\ gcode' = r.gcode
    /\ arc' = NoArc
    /\ lastUnit' = LastUnitAfter(last, l, f, drv)

\* g.exec(l), the f-th driver call of the line raising (f = 0: none)
ExecLine(l, f) ==
    /\ nexec < MaxExec
    /\ nexec' = nexec + 1
    /\ phase' = "done"
    /\ raw' = Text(l)
    /\ Observe(l, f, m, lastUnit, exec(Start(m, drv, variant, f), l))
    /\ UNCHANGED variant

\* g.exec(l) called by a runner or a replay, outside the dispatcher
Exec(l, f) == ExecLine(l, f) /\ UNCHANGED job

\* which call may raise: any, on a device driver; none on the others
FailChoices(l) ==
    IF drv.kind = "machine"
    THEN 0..Len(exec(Start(m, drv, variant, 0), l).calls)
    ELSE {0}

\* XYRunnerApp._apply_defaults / XYZRunnerApp._apply_defaults, run on the
\* new interpreter: g.exec("G21") or g.exec("G20") ...
DefaultUnits(unit) ==
    LET l == IF unit = "mm" THEN <<G21>> ELSE <<G20>>
    IN  /\ phase = "new"
        /\ phase' = "units"
        /\ raw' = Text(l)
        /\ Observe(l, 0, m, lastUnit, exec(Start(m, drv, variant, 0), l))
        /\ UNCHANGED <<job, variant, nexec>>

\* ... then g.exec("G90") or g.exec("G91") ...
DefaultMode(mode) ==
    LET l == IF mode = "absolute" THEN <<G90>> ELSE <<G91>>
    IN  /\ phase = "units"
        /\ phase' = "mode"
        /\ raw' = Text(l)
        /\ Observe(l, 0, m, lastUnit, exec(Start(m, drv, variant, 0), l))
        /\ UNCHANGED <<job, variant, nexec>>

\* ... then g.exec(f"F{float(feed)}") when the defaults have a feed
DefaultFeed ==
    /\ phase = "mode"
    /\ phase' = "ready"
    /\ raw' = Text(<<FDefault>>)
    /\ Observe(<<FDefault>>, 0, m, lastUnit,
               exec(Start(m, drv, variant, 0), <<FDefault>>))
    /\ UNCHANGED <<job, variant, nexec>>

\* the runner applies the defaults of its configuration
Configure ==
    \/ \E unit \in {"mm", "inch"} : DefaultUnits(unit)
    \/ \E mode \in {"absolute", "relative"} : DefaultMode(mode)
    \/ DefaultFeed

\* a caller (a job, a file replay) runs a line made of the given words, on
\* a new interpreter or after the defaults
Run(tokens) ==
    /\ phase \in {"new", "mode", "ready"}
    /\ \E l \in LinesOver(tokens) : \E f \in FailChoices(l) : Exec(l, f)

\* a caller runs a line of up to MaxMixedWords words
RunMixed(tokens) ==
    /\ phase \in {"new", "mode", "ready"}
    /\ \E l \in UNION {[1..n -> tokens] : n \in 0..MaxMixedWords} :
           \E f \in FailChoices(l) : Exec(l, f)

\* ------------------------------------------------------- the dispatcher
\* the job types registered by build_xy_job_factory / build_xyz_job_factory
JobRegistry(v) ==
    IF v = "planar" THEN {"grid_circles", "svg"}
    ELSE {"gcode", "stp", "grid_spheres"}

\* job_config.get(key): the value, or None
Get(config, key) ==
    IF key \in DOMAIN config THEN [set |-> TRUE, val |-> config[key]]
    ELSE [set |-> FALSE, val |-> ""]

\* JobFactory.create: None without a type or for a type not registered,
\* else the job the creator builds around the configuration
create(registry, job_config) ==
    LET job_type == Get(job_config, "type")
    IN  IF ~job_type.set \/ job_type.val = ""
        THEN [made |-> FALSE, config |-> job_config]
        ELSE IF job_type.val \notin registry
        THEN [made |-> FALSE, config |-> job_config]
        ELSE [made |-> TRUE, config |-> job_config]

\* the loop of dispatch_jobs left at the first configuration without a job
AfterJob_StopAtSkip(j, created, failed) ==
    [j EXCEPT !.taken = @ + 1,
              !.executed = IF created.made THEN Append(@, j.taken + 1) ELSE @,
              !.raised = failed,
              !.active = created.made /\ ~failed /\ j.taken + 1 < Len(j.jobs)]

\* the dispatcher after one turn of the loop of dispatch_jobs: the next
\* configuration is taken, execute was called if create made a job, and an
\* exception of execute leaves the loop
AfterJob(j, created, failed) ==
    [j EXCEPT !.taken = @ + 1,
              !.executed = IF created.made THEN Append(@, j.taken + 1) ELSE @,
              !.raised = failed,
              !.active = ~failed /\ j.taken + 1 < Len(j.jobs)]

\* the argument of dispatch_jobs: a list of configurations, or None
JobConfigs ==
    {[file |-> "a"], [type |-> "", file |-> "a"],
     [type |-> "svg", file |-> "a"], [type |-> "gcode", file |-> "a"]}

JobLists ==
    {[given |-> FALSE, list |-> <<>>]} \cup
    {[given |-> TRUE, list |-> l] :
        l \in UNION {[1..n -> JobConfigs] : n \in 0..MaxJobs}}

\* dispatcher.dispatch_jobs(jobs, gcode=g, context=context), up to its loop:
\* for job_cfg in jobs or []
DispatchJobs ==
    /\ ~job.called
    /\ phase \in {"new", "mode", "ready"}
    /\ \E arg \in JobLists :
           LET jobs == IF arg.given THEN arg.list ELSE <<>>
           IN  job' = [jobs |-> jobs, taken |-> 0, executed |-> <<>>,
                       raised |-> FALSE, active |-> Len(jobs) > 0,
                       called |-> TRUE]
    /\ UNCHANGED <<variant, drv, m, phase, nexec, raw, line, failAt, pre,
                   calls, exc, code, gcode, arc, lastUnit>>

\* one turn of the loop, dispatch_job(job_cfg): create, then execute unless
\* there is no job; execute feeds a line to the interpreter
DispatchJob(tokens) ==
    /\ job.active
    /\ phase \in {"new", "mode", "ready"}
    /\ LET created == create(JobRegistry(variant), job.jobs[job.taken + 1])
       IN  \/ /\ ~created.made
              /\ job' = AfterJob(job, created, FALSE)
              /\ UNCHANGED <<variant, drv, m, phase, nexec, raw, line,
                             failAt, pre, calls, exc, code, gcode, arc,
                             lastUnit>>
           \/ /\ created.made
              /\ \E l \in LinesOver(tokens) :
                     \E f \in FailChoices(l) :
                         /\ ExecLine(l, f)
                         /\ job' = AfterJob(job, created, exc' # "none")

\* an arc line: G2 or G3 followed by end point and offset words
ArcLinesOver(tokens) ==
    {<<g>> \o ws : g \in {G2, G3},
                   ws \in UNION {[1..n -> tokens] : n \in 0..MaxArcWords}}

\* a caller runs an arc line
RunArc(tokens) ==
    /\ phase \in {"new", "mode", "ready"}
    /\ \E l \in ArcLinesOver(tokens) : \E f \in FailChoices(l) : Exec(l, f)

\* The arc handler followed call by call.
\* the interpreter run as the variables hold it
Current ==
    [m |-> m, drv |-> drv, variant |-> variant, calls |-> calls, exc |-> exc,
     code |-> code, gcode |-> gcode, failAt |-> failAt]

\* the move_abs calls made so far on the line
MovesMade == Cardinality({i \in 1..Len(calls) : calls[i].op = "move_abs"})

\* g.exec(l) on a line that reaches the arc handler, up to the loop: the
\* modal words and the feed are applied, the geometry and the feed of the
\* arc are computed
ArcBegin(l, f) ==
    LET words == FindWords(l)
        s1    == _apply_modal(Start(m, drv, variant, f), words)
        s2    == _update_feed(s1, words)
        scan  == ScanMotion(variant, words)
        geo   == ArcGeometry(s2.m, scan.gcode.val, scan.params)
    IN  /\ nexec < MaxExec
        /\ variant = "planar"
        /\ Len(l) > 0
        /\ ~StartsWithHome(l)
        /\ s1.exc = "none"
        /\ _contains_motion(variant, words) = "yes"
        /\ ~scan.overflow
        /\ scan.gcode.set
        /\ scan.gcode.val \in {2, 3}
        /\ nexec' = nexec + 1
        /\ phase' = "arc"
        /\ raw' = Text(l)
        /\ line' = l
        /\ failAt' = f
        /\ pre' = m
        /\ m' = s2.m
        /\ drv' = s2.drv
        /\ calls' = s2.calls
        /\ exc' = "none"
        /\ code' = 0
        /\ gcode' = scan.gcode
        /\ arc' = [ex |-> geo.ex, ey |-> geo.ey, cx |-> geo.cx, cy |-> geo.cy,
                   start |-> geo.start, end |-> geo.end, sweep |-> geo.sweep,
                   radius |-> geo.radius, steps |-> geo.steps,
                   feed |-> ResolveFeed(s2.m, scan.params)]
        /\ lastUnit' = LastUnitAfter(lastUnit, l, f, drv)
        /\ UNCHANGED <<variant, job>>

\* a caller runs an arc line, watched call by call
BeginArc(tokens) ==
    /\ phase \in {"new", "mode", "ready"}
    /\ \E l \in ArcLinesOver(tokens) : \E f \in FailChoices(l) : ArcBegin(l, f)

\* one turn of the loop: the next move_abs call, which returns or raises
ArcStep ==
    LET r == ArcStepCall(Current, arc, arc.feed, MovesMade + 1)
    IN  /\ phase = "arc"
        /\ MovesMade < arc.steps
        /\ m' = r.m
        /\ drv' = r.drv
        /\ calls' = r.calls
        /\ exc' = r.exc
        /\ phase' = IF r.exc = "none" THEN "arc" ELSE "done"
        /\ arc' = IF r.exc = "none" THEN arc ELSE NoArc
        /\ UNCHANGED <<job, variant, nexec, raw, line, failAt, pre, code, gcode,
                       lastUnit>>

\* after the loop: self.m.xpos, self.m.ypos = ex, ey
ArcFinish ==
    LET r == CommitPosition(Current, [X |-> arc.ex, Y |-> arc.ey])
    IN  /\ phase = "arc"
        /\ MovesMade = arc.steps
        /\ m' = r.m
        /\ phase' = "done"
        /\ arc' = NoArc
        /\ UNCHANGED <<job, variant, drv, nexec, raw, line, failAt, pre, calls, exc,
                       code, gcode, lastUnit>>

\* the text pieces put end to end
RECURSIVE Concat(_, _)
Concat(ps, i) == IF i > Len(ps) THEN <<>> ELSE ps[i] \o Concat(ps, i + 1)

RawLinesOver(pieces) ==
    {Concat(ps, 1) : ps \in UNION {[1..n -> pieces] : n \in 0..MaxPieces}}

\* g.exec(text) on a raw line: comments, blanks and all
RawExec(text, f) ==
    LET l == Cleaned(text)
    IN  /\ nexec < MaxExec
        /\ nexec' = nexec + 1
        /\ phase' = "done"
        /\ raw' = text
        /\ Observe(l, f, m, lastUnit, exec(Start(m, drv, variant, f), l))
        /\ UNCHANGED <<variant, job>>

\* a caller runs a raw line put together from the given pieces
RunRaw(pieces) ==
    /\ phase \in {"new", "mode", "ready"}
    /\ \E text \in RawLinesOver(pieces) :
           \E f \in FailChoices(Cleaned(text)) : RawExec(text, f)

\* the caller goes on to its next line: "for line in fdata: gcode.exec(line)";
\* what was observed of the last line is dropped, the interpreter and the
\* driver keep their state
NextLine ==
    /\ phase = "done"
    /\ phase' = "ready"
    /\ raw' = <<>>
    /\ line' = <<>>
    /\ failAt' = 0
    /\ pre' = m
    /\ calls' = <<>>
    /\ exc' = "none"
    /\ code' = 0
    /\ gcode' = NoCode
    /\ arc' = NoArc
    /\ UNCHANGED <<job, variant, drv, m, nexec, lastUnit>>

\* ------------------------------------------------------- specifications
\* Any interpreter with any driver, lines over a broad vocabulary.
Tokens == {G0, G1, G2, G20, G21, G90, G91, F600, FNeg, X1, INeg, Home}

Init == InitOf(Variants, DriverKinds)

Next == Configure \/ Run(Tokens) \/ NextLine

Spec == Init /\ [][Next]_vars

\* Straight moves: both variants, the recording driver and a device driver.
TokLinear == {G0, G1, G91, X1, Y05, Z2}

InitLinear == InitOf(Variants, {"sim", "machine"})

NextLinear == Configure \/ Run(TokLinear) \/ NextLine

SpecLinear == InitLinear /\ [][NextLinear]_vars

\* Feed words on straight moves and arcs.
TokFeed == {G0, G1, G2, G3, F600, FBad, X1}

InitFeed == InitOf(Variants, {"sim"})

NextFeed == Configure \/ Run(TokFeed) \/ NextLine

SpecFeed == InitFeed /\ [][NextFeed]_vars

\* Moves and arcs on a device driver whose calls may raise.
TokFail == {G0, G1, G2, X1, INeg}

InitFail == InitOf({"planar"}, {"machine"})

NextFail == Configure \/ Run(TokFail) \/ NextLine

SpecFail == InitFail /\ [][NextFail]_vars

\* Unit words, with every kind of driver.
TokUnits == {G20, G21, G1, X1, Home}

InitUnits == InitOf({"planar"}, DriverKinds)

NextUnits == Configure \/ Run(TokUnits) \/ NextLine

SpecUnits == InitUnits /\ [][NextUnits]_vars

\* Raw lines with comments, blanks and the homing command.
PMove == <<"G", "1", "X", "1">>

PiecesRaw == {PMove, <<"(">>, <<")">>, <<";">>, <<" ">>, <<"$", "H">>}

InitRaw == InitOf({"planar"}, {"sim", "machine"})

NextRaw == RunRaw(PiecesRaw) \/ NextLine

SpecRaw == InitRaw /\ [][NextRaw]_vars

\* Words that do not parse, next to words that do.
TokMalformed == {G1, G2, F600, X1, INeg, FBad, XBad, GBad, IBad}

InitMalformed == InitOf(Variants, {"sim"})

NextMalformed == Configure \/ Run(TokMalformed) \/ NextLine

SpecMalformed == InitMalformed /\ [][NextMalformed]_vars

\* Motion words next to G words that are not motion words.
TokCodes == {G0, G1, G2, G4, G20, G90, F600, X1, GHuge}

InitCodes == InitOf(Variants, {"sim"})

NextCodes == Configure \/ Run(TokCodes) \/ NextLine

SpecCodes == InitCodes /\ [][NextCodes]_vars

\* Arcs of the planar variant, from positions straight moves lead to.
TokPosition == {G1, G91, X1, Y05}

TokArc == {X1, Y05, INeg, J1}

InitArc == InitOf({"planar"}, {"sim"})

NextArc == Run(TokPosition) \/ RunArc(TokArc) \/ NextLine

SpecArc == InitArc /\ [][NextArc]_vars

\* Modal words and feed words, with moves in between.
TokModal == {G20, G21, G90, G91, F600, G1, X1}

InitModal == InitOf(Variants, {"sim", "bare"})

NextModal == Configure \/ Run(TokModal) \/ NextLine

SpecModal == InitModal /\ [][NextModal]_vars

\* Words in lowercase, next to words in uppercase.
TokCase == {g1, g2, g20, g91, f600, x1, z2, ineg, X1}

InitCase == InitOf(Variants, {"sim"})

NextCase == Run(TokCase) \/ NextLine

SpecCase == InitCase /\ [][NextCase]_vars

\* Arcs of the planar variant followed call by call, on a device driver
\* whose calls may raise.
TokStart == {G1, X1, Y05}

TokArcSteps == {X1, INeg, F600}

InitArcSteps == InitOf({"planar"}, {"sim", "machine"})

NextArcSteps ==
    \/ Run(TokStart)
    \/ BeginArc(TokArcSteps)
    \/ ArcStep
    \/ ArcFinish
    \/ NextLine

SpecArcSteps == InitArcSteps /\ [][NextArcSteps]_vars

\* Arcs in millimetres and inches, in absolute and relative mode.
TokModes == {G1, G91, G20, X1}

TokArcModes == {X1, Y05, INeg, J01}

InitArcModes == InitOf({"planar"}, {"sim"})

NextArcModes ==
    \/ Run(TokModes)
    \/ BeginArc(TokArcModes)
    \/ ArcStep
    \/ ArcFinish
    \/ NextLine

SpecArcModes == InitArcModes /\ [][NextArcModes]_vars

\* Modal words before, between and after the motion and axis words.
TokOrder == {G1, G20, G91, X1, F600}

InitOrder == InitOf({"planar"}, {"sim"})

NextOrder == RunMixed(TokOrder) \/ NextLine

SpecOrder == InitOrder /\ [][NextOrder]_vars

\* The runner hands its job list to the dispatcher; the jobs feed lines.
TokJobs == {G1, G2}

InitJobs == InitOf(Variants, {"sim"})

NextJobs == DispatchJobs \/ DispatchJob(TokJobs) \/ NextLine

SpecJobs == InitJobs /\ [][NextJobs]_vars

\* ------------------------------------------------------------- properties
\* What the observed line says, read from its words.
Words == IF Len(line) = 0 \/ StartsWithHome(line) THEN <<>> ELSE FindWords(line)

\* the places of the parseable words with the letter
Parseable(letter) ==
    {i \in 1..Len(Words) : Upper(Words[i].l) = letter /\ float(Words[i].v).ok}

Has(letter) == Parseable(letter) # {}

\* the value of the last parseable word with the letter
Value(letter) ==
    LET last == CHOOSE i \in Parseable(letter) :
                    \A j \in Parseable(letter) : j <= i
    IN  float(Words[last].v).val

\* a value of the line in millimetres, under the unit flag in force once
\* the modal words of the line are applied
InMm(v) == IF m.units_mm THEN v ELSE (v * 254) \div 10

MoveCalls == LET isMove(c) == c.op = "move_abs" IN SelectSeq(calls, isMove)

UnitCalls ==
    LET isUnit(c) == c.op \in {"set_units_mm", "set_units_inch"}
    IN  SelectSeq(calls, isUnit)

\* the motion handler ran and the motion code it collected is 0 or 1
Linear == gcode.set /\ gcode.val \in {0, 1}

\* the motion handler ran and the variant moves on the code it collected
Moving ==
    /\ gcode.set
    /\ \/ gcode.val \in {0, 1}
       \/ variant = "planar" /\ gcode.val \in {2, 3}

ExpectedTarget(a) ==
    IF ~Has(a) THEN pre.pos[a]
    ELSE IF m.absolute THEN InMm(Value(a))
    ELSE pre.pos[a] + InMm(Value(a))

ExpectedTargets == [a \in AxisSet(variant) |-> ExpectedTarget(a)]

\* C1: on a line handled as G0/G1 the single move_abs call carries, for each axis of
\* the variant, the converted value of the axis word in absolute mode, the
\* position before the line plus the converted value in relative mode, and
\* the position before the line when the axis has no word; once the call
\* has returned the stored position is those targets.
C1_LinearTargets ==
    Linear =>
        /\ Len(MoveCalls) = 1
        /\ MoveCalls[1].axes = ExpectedTargets
        /\ (exc = "none" => m.pos = ExpectedTargets)

\* a relative move in inches from a position away from the origin, one axis
\* named and the others not, the call having returned
C1_Witness ==
    /\ Linear
    /\ exc = "none"
    /\ ~m.absolute
    /\ ~m.units_mm
    /\ Has("X")
    /\ ~Has("Y")
    /\ pre.pos["X"] # 0
    /\ m.pos["X"] = pre.pos["X"] + 25400

C3_DispatchOnMotionCode ==
    gcode.set =>
        /\ gcode.val \in motion_g_codes(variant)
        /\ \E i \in Parseable("G") : Trunc(float(Words[i].v).val) = gcode.val

\* every G word of the line is an arc code
ArcLine ==
    /\ Has("G")
    /\ \A i \in Parseable("G") : Trunc(float(Words[i].v).val) \in {2, 3}

\* C4: on the spatial variant a line whose G words are arc codes fails with
\* the unsupported-motion error carrying the code.
C4_SpatialArcUnsupported ==
    (variant = "spatial" /\ ArcLine) =>
        (exc = "unsupported" /\ code = Trunc(Value("G")))

ExpectedFeed == IF Has("F") THEN InMm(Value("F")) ELSE pre.feed

\* C5: every move_abs call of a motion line carries the line's last
\* parseable F value converted to millimetres, or, when the line has none,
\* the feed stored before the line, as stored.
C5_FeedPassed ==
    Moving =>
        /\ Len(MoveCalls) >= 1
        /\ \A i \in 1..Len(MoveCalls) : MoveCalls[i].feed = ExpectedFeed

\* an arc in inch mode on a line with an F word, drawn in several steps
C5_Witness ==
    /\ Moving
    /\ gcode.val = 2
    /\ ~m.units_mm
    /\ Has("F")
    /\ Len(MoveCalls) > 1
    /\ MoveCalls[2].feed = 15240 * Scale

\* C6: the stored feed is in millimetres per minute: after a line with an F
\* word it is the value of the word converted under the unit mode in force.
C6_StoredFeedInMm == (exc = "none" /\ Has("F")) => m.feed = InMm(Value("F"))

\* C7: the stored feed is never negative.
C7_FeedNotNegative == m.feed >= 0

\* the driver call chosen to raise was a move_abs call of the line
MoveFailed ==
    /\ failAt \in 1..Len(calls)
    /\ calls[failAt].op = "move_abs"

\* the same line run again on the interpreter as the failure left it
RetryMoves ==
    LET isMove(c) == c.op = "move_abs"
    IN  SelectSeq(exec(Start(m, drv, variant, 0), line).calls, isMove)

\* C8: when a move_abs call of a G0/G1 line or of an arc raises, the error
\* reaches the caller with no further driver call, the stored position is
\* the one before the line, and running the line again makes the calls of
\* the failed attempt again, with the same targets.
C8_FailedMoveKeepsPosition ==
    MoveFailed =>
        /\ exc = "driver_error"
        /\ Len(calls) = failAt
        /\ m.pos = pre.pos
        /\ Len(RetryMoves) >= Len(MoveCalls)
        /\ SubSeq(RetryMoves, 1, Len(MoveCalls)) = MoveCalls

\* an arc in relative mode, away from the origin, raising after its first
\* step; its end point is not where it starts
C8_Witness ==
    /\ MoveFailed
    /\ gcode.val = 2
    /\ Len(MoveCalls) > 1
    /\ ~m.absolute
    /\ Has("X")
    /\ pre.pos["X"] # 0

\* C9: a driver call that raises leaves the modal state as it was before
\* the line.
C9_FailureKeepsModalState == exc = "driver_error" => m = pre

\* C10: the unit flag says millimetres exactly when the last G20/G21 word
\* processed is G21 or there was none, and on a driver with the unit calls
\* the line made the matching call for each unit word it processed, in order.
C10_UnitsFollowLastWord ==
    /\ m.units_mm <=> lastUnit \in {0, 21}
    /\ LET p == ProcessedUnitWords(line, failAt, drv)
       IN  UnitCalls =
               IF HasAttr(drv, "set_units_mm")
               THEN [i \in 1..Len(p) |->
                       IF p[i] = 20 THEN Call("set_units_inch")
                       ELSE Call("set_units_mm")]
               ELSE <<>>

\* a line with G21 then G20 run in millimetre mode on a driver with the
\* unit calls: both calls made, inches in force
C10_Witness ==
    /\ pre.units_mm
    /\ ~m.units_mm
    /\ lastUnit = 20
    /\ Len(UnitCalls) = 2
    /\ UnitCalls[1].op = "set_units_mm"
    /\ UnitCalls[2].op = "set_units_inch"

\* ------------------------------------------- properties of the raw line
CharsOf(s) == {s[i] : i \in 1..Len(s)}

RECURSIVE OnlyComments(_, _, _)
\* the text from character i on is made of blanks, closed "( ... )" spans
\* with no parenthesis inside, and possibly a ";" comment to the end
OnlyComments(s, i, inSpan) ==
    IF i > Len(s) THEN ~inSpan
    ELSE IF inSpan
    THEN (IF s[i] = ")" THEN OnlyComments(s, i + 1, FALSE)
          ELSE IF s[i] = "(" THEN FALSE
          ELSE OnlyComments(s, i + 1, TRUE))
    ELSE IF s[i] = ";" THEN TRUE
    ELSE IF s[i] = "(" THEN OnlyComments(s, i + 1, TRUE)
    ELSE s[i] \in Whitespace /\ OnlyComments(s, i + 1, FALSE)

\* C11: a line that is empty, blank or made only of comments makes no
\* driver call and leaves every field of the modal state unchanged.
C11_CommentLineIsNoOp ==
    (phase = "done" /\ OnlyComments(raw, 1, FALSE)) =>
        /\ calls = <<>>
        /\ exc = "none"
        /\ m = pre

\* a line with a move written inside a "( ... )" span and another after a
\* ";", run away from the origin
C11_Witness ==
    /\ phase = "done"
    /\ OnlyComments(raw, 1, FALSE)
    /\ {"(", ")", ";", "G", "X"} \subseteq CharsOf(raw)
    /\ raw[1] = "("
    /\ pre.pos["X"] # 0
    /\ m = pre

RECURSIVE CloserFrom(_, _, _)
\* the ")" that closes a "(", counting the parentheses in between (0: none)
CloserFrom(s, j, depth) ==
    IF j > Len(s) THEN 0
    ELSE IF s[j] = ")"
    THEN (IF depth = 1 THEN j ELSE CloserFrom(s, j + 1, depth - 1))
    ELSE IF s[j] = "(" THEN CloserFrom(s, j + 1, depth + 1)
    ELSE CloserFrom(s, j + 1, depth)

\* character k lies in a "( ... )" span, nested spans counted with the
\* span around them
InSpan(s, k) ==
    \E i \in 1..k : s[i] = "(" /\ CloserFrom(s, i + 1, 1) >= k

\* the text outside the spans and before the first ";" outside them
OutsideText(s) ==
    LET semi == {k \in 1..Len(s) : s[k] = ";" /\ ~InSpan(s, k)}
        stop == IF semi = {} THEN Len(s) + 1 ELSE MinOf(semi)
        keep(k) == k < stop /\ ~InSpan(s, k)
        idx == {k \in 1..Len(s) : keep(k)}
        nth[n \in 0..Len(s)] ==
            IF n = 0 THEN 0 ELSE MinOf({k \in idx : k > nth[n - 1]} \cup {Len(s) + 1})
    IN  [n \in 1..Cardinality(idx) |-> s[nth[n]]]

\* every "(" is closed, with no parenthesis inside its span, and no ")"
\* stands alone
SimpleSpans(s) ==
    /\ \A i \in 1..Len(s) : s[i] = "(" =>
           /\ CloserFrom(s, i + 1, 1) > 0
           /\ \A k \in (i + 1)..(CloserFrom(s, i + 1, 1) - 1) : s[k] # "("
    /\ \A k \in 1..Len(s) : s[k] = ")" => InSpan(s, k)

RECURSIVE IsSubseqFrom(_, _, _, _)
\* a from i on can be read off b from j on, in order
IsSubseqFrom(a, i, b, j) ==
    IF i > Len(a) THEN TRUE
    ELSE IF j > Len(b) THEN FALSE
    ELSE IF a[i] = b[j] THEN IsSubseqFrom(a, i + 1, b, j + 1)
    ELSE IsSubseqFrom(a, i, b, j + 1)

\* C12: the cleaned line has no text from inside a "( ... )" span, nested
\* or not, nor from after the first ";" outside the spans; and with plain
\* spans it is exactly the text outside them, a ";" inside a span cutting
\* nothing.
C12_CommentsRemoved ==
    /\ IsSubseqFrom(_strip_comment(raw), 1, OutsideText(raw), 1)
    /\ (SimpleSpans(raw) => _strip_comment(raw) = OutsideText(raw))

\* the cleaned text of the line starts with "$H"
HomeLine ==
    LET c == strip(_strip_comment(raw))
    IN  Len(c) >= 2 /\ c[1] = "$" /\ c[2] = "H"

\* C13: a line whose cleaned text starts with "$H", whatever follows,
\* calls home() once when the driver has it, makes no other driver call
\* and leaves the modal state unchanged.
C13_HomeOnly ==
    HomeLine =>
        /\ calls = IF drv.kind = "bare" THEN <<>> ELSE <<Call("home")>>
        /\ exc \in {"none", "driver_error"}
        /\ m = pre

\* "$H" followed by a unit word, in inch mode away from the origin
C13_Witness ==
    /\ HomeLine
    /\ Len(line) = 2
    /\ Upper(line[2].l) = "G"
    /\ line[2].v = <<"2", "1">>
    /\ ~m.units_mm
    /\ m.pos["X"] # 0
    /\ calls = <<Call("home")>>
    /\ exc = "none"

\* ------------------------------------------- properties of malformed words
WellFormed(w) == float(w.v).ok

Malformed == {i \in 1..Len(line) : ~WellFormed(line[i])}

\* the run of the observed line with its malformed words left out, from the
\* state the line started in
RunWithoutMalformed ==
    exec(Start(pre, drv, variant, failAt), SelectSeq(line, WellFormed))

\* C14: a word whose value text is not a number counts as absent: the line ends
\* in the modal state, with the driver calls and with the outcome of the same
\* line without that word, and the unparseable word itself raises nothing.
C14_MalformedWordAbsent ==
    (phase = "done" /\ Malformed # {}) =>
        /\ m = RunWithoutMalformed.m
        /\ calls = RunWithoutMalformed.calls
        /\ exc = RunWithoutMalformed.exc
        /\ gcode = RunWithoutMalformed.gcode
        /\ exc \in {"none", "unsupported"}
        /\ SelectSeq(line, WellFormed) = <<>> => (m = pre /\ calls = <<>>)

\* G1 with a malformed X word, away from the origin: the move is made, to
\* the position the carriage is at
C14_Witness ==
    /\ phase = "done"
    /\ variant = "planar"
    /\ Len(line) = 2
    /\ line[1] = G1
    /\ line[2] = XBad
    /\ pre.pos["X"] # 0
    /\ Len(calls) = 1
    /\ exc = "none"

\* -------------------------------------- properties of the unsupported error
\* the codes the variant has a handler for
Handled == IF variant = "planar" THEN {0, 1, 2, 3} ELSE {0, 1}

\* the line "G1 X1" run next on the same interpreter
FollowUp == exec(Start(m, drv, variant, 0), <<G1, X1>>)

\* C15: when exec raises the unsupported-motion-code error, the error carries
\* the code the motion handler stopped on, no move_abs call was made for the
\* line, the position is what it was, and the next line run on the same
\* interpreter moves as on any interpreter in that modal state.
C15_UnsupportedIsLocal ==
    (phase = "done" /\ exc = "unsupported") =>
        /\ Has("G")
        /\ code = Trunc(Value("G"))
        /\ code \notin Handled
        /\ MoveCalls = <<>>
        /\ m.pos = pre.pos
        /\ FollowUp.exc = "none"
        /\ Len(FollowUp.calls) = 1
        /\ FollowUp.calls[1] =
               MoveAbs([FollowUp.m.pos EXCEPT !["X"] =
                            IF m.absolute THEN InMm(Scale)
                            ELSE m.pos["X"] + InMm(Scale)],
                       m.feed, FALSE)
        /\ FollowUp.m.pos = FollowUp.calls[1].axes
        /\ \A a \in AxisSet(variant) \ {"X"} : FollowUp.m.pos[a] = m.pos[a]

\* "G0 G4" away from the origin: G4 is reported
C15_Witness ==
    /\ phase = "done"
    /\ exc = "unsupported"
    /\ code = 4
    /\ line = <<G0, G4>>
    /\ pre.pos["X"] # 0

\* ------------------------------------------ properties of other G words
ModalCodes == {20 * Scale, 21 * Scale, 90 * Scale, 91 * Scale}

\* every G word of the line that has a value is neither a modal code nor a
\* motion code of the variant
NoKnownGWord ==
    \A i \in Parseable("G") :
        LET g == float(Words[i].v)
        IN  \/ g.inf
            \/ /\ g.val \notin ModalCodes
               /\ Trunc(g.val) \notin motion_g_codes(variant)

\* C16: on a driver whose calls return, exec raises nothing but the
\* unsupported-motion-code error; a line whose G words are neither modal
\* codes nor motion codes of the variant ends without error and without a
\* driver call, and changes at most the feed, to the value of its F word.
C16_OnlyUnsupportedRaised ==
    (phase = "done" /\ failAt = 0) =>
        /\ exc \in {"none", "unsupported"}
        /\ (~StartsWithHome(line) /\ NoKnownGWord) =>
               /\ exc = "none"
               /\ calls = <<>>
               /\ m = [pre EXCEPT !.feed = IF Has("F") THEN Value("F")
                                           ELSE pre.feed]

\* ------------------------------- properties of a driver with move_abs only
\* the observed line run from the same state on a recording driver, which
\* has every optional method
OnFullDriver == exec(Start(pre, NewDriver("sim", variant), variant, 0), line)

\* the line is the homing command, or is made of G20 and G21 words only
CapabilityLine ==
    \/ StartsWithHome(line)
    \/ /\ Len(line) > 0
       /\ \A i \in 1..Len(line) : line[i] \in {G20, G21}

\* C17: on a driver without home, set_units_mm and set_units_inch, "$H" and
\* lines of G20/G21 words raise nothing and make no driver call, G20/G21 still
\* set the unit flag, to G21 = millimetres for the last word; and any line
\* ends as it does on a driver with these methods, less the calls to them.
C17_MissingCapabilitySkipped ==
    (phase = "done" /\ drv.kind = "bare") =>
        /\ CapabilityLine =>
               /\ exc = "none"
               /\ calls = <<>>
               /\ m = [pre EXCEPT !.units_mm =
                           IF StartsWithHome(line) THEN pre.units_mm
                           ELSE line[Len(line)] = G21]
        /\ exc = OnFullDriver.exc
        /\ m = OnFullDriver.m
        /\ calls = LET isMove(c) == c.op = "move_abs"
                   IN  SelectSeq(OnFullDriver.calls, isMove)

\* "G21 G20" on the bare driver: inches, and no call
C17_Witness ==
    /\ phase = "done"
    /\ drv.kind = "bare"
    /\ line = <<G21, G20>>
    /\ pre.units_mm
    /\ ~m.units_mm
    /\ calls = <<>>
    /\ exc = "none"
    /\ Len(OnFullDriver.calls) = 2

\* -------------------------------------------------- properties of the arcs
\* the arc handler of the planar variant ran on the line, to its end
ArcRan ==
    /\ phase = "done"
    /\ variant = "planar"
    /\ gcode.set
    /\ gcode.val \in {2, 3}
    /\ exc = "none"

\* equal up to the rounding of the arc points (thousandths)
Near(a, b) == Abs(a - b) <= 5

\* C18: the last move_abs call of an arc goes to the end point of the arc, the
\* position committed after the loop.
C18_ArcEndsAtEndPoint ==
    ArcRan =>
        /\ MoveCalls # <<>>
        /\ \A a \in {"X", "Y"} :
               Near(MoveCalls[Len(MoveCalls)].axes[a], m.pos[a])

\* the geometry the arc handler computed for the observed line: from the
\* position before the line, under the modes the line left in force
ArcOfLine ==
    ArcGeometry([m EXCEPT !.pos = pre.pos], gcode.val,
                ScanMotion(variant, Words).params)

\* the calls of the line are the points of the arc for that geometry
PointsOfArc ==
    /\ Len(MoveCalls) = ArcOfLine.steps
    /\ \A k \in 1..Len(MoveCalls) :
           MoveCalls[k].axes =
               ArcPoint(ArcOfLine.cx, ArcOfLine.cy, ArcOfLine.radius,
                        ArcOfLine.start, ArcOfLine.sweep, ArcOfLine.steps, k)

\* C19: the sweep the arc points are generated with is never positive on a G2
\* line and never negative on a G3 line, and is at most one full turn.
C19_SweepDirection ==
    ArcRan =>
        /\ PointsOfArc
        /\ gcode.val = 2 => ArcOfLine.sweep <= 0
        /\ gcode.val = 3 => ArcOfLine.sweep >= 0
        /\ Abs(ArcOfLine.sweep) <= TwoPi

\* a G2 arc around an offset centre whose end angle is ahead of its start
\* angle: the sweep is turned round
C19_Witness ==
    /\ ArcRan
    /\ gcode.val = 2
    /\ ArcOfLine.radius > 0
    /\ ArcOfLine.end - ArcOfLine.start > 0
    /\ ArcOfLine.sweep < 0

\* C20: an arc line of the planar variant run to its end makes at least 12
\* move_abs calls, one for each step, whatever the radius and the sweep.
C20_AtLeastTwelveMoves ==
    ArcRan =>
        /\ Len(MoveCalls) >= 12
        /\ Len(MoveCalls) = ArcSteps(ArcOfLine.sweep, ArcOfLine.radius)
        /\ Len(calls) = Len(MoveCalls)

\* an arc of radius zero away from the origin: no offset word, twelve calls
C20_Witness ==
    /\ ArcRan
    /\ ArcOfLine.radius = 0
    /\ ~Has("I")
    /\ ~Has("J")
    /\ pre.pos["X"] # 0
    /\ Len(MoveCalls) = 12

\* ------------------------------------------ properties of the modal words
\* the observed line run once more on the interpreter as the line left it
Again == exec(Start(m, drv, variant, 0), line)

\* C21: "G21 G90" run a second time leaves the modal state as the first run
\* left it: millimetres, absolute, feed and position as before the line.
C21_ModalIdempotent ==
    (phase = "done" /\ line = <<G21, G90>>) =>
        /\ exc = "none"
        /\ m = [pre EXCEPT !.units_mm = TRUE, !.absolute = TRUE]
        /\ Again.exc = "none"
        /\ Again.m = m

\* "G21 G90" on an interpreter in inches and relative mode, off the origin
C21_Witness ==
    /\ phase = "done"
    /\ line = <<G21, G90>>
    /\ ~pre.units_mm
    /\ ~pre.absolute
    /\ pre.pos["X"] # 0
    /\ Again.m = m

\* -------------------------------------------- properties of the word letters
\* the capital of a letter, by the alphabet
Capital(c) ==
    LET lower == <<"f", "g", "i", "j", "x", "y", "z">>
        upper == <<"F", "G", "I", "J", "X", "Y", "Z">>
        at    == {k \in 1..Len(lower) : lower[k] = c}
    IN  IF at = {} THEN c ELSE upper[CHOOSE k \in at : TRUE]

\* the observed line written in capitals
InCapitals == [i \in 1..Len(line) |-> Tok(Capital(line[i].l), line[i].v)]

LowercaseWords == {i \in 1..Len(line) : Capital(line[i].l) # line[i].l}

\* the line in capitals run from the state the observed line started in
RunInCapitals == exec(Start(pre, drv, variant, failAt), InCapitals)

\* C22: a line with words written in lowercase makes the driver calls and
\* leaves the modal state of the same line written in capitals.
C22_LettersCaseInsensitive ==
    (phase = "done" /\ LowercaseWords # {}) =>
        /\ calls = RunInCapitals.calls
        /\ m = RunInCapitals.m
        /\ exc = RunInCapitals.exc
        /\ gcode = RunInCapitals.gcode

\* "g1 x1" in relative mode, off the origin: one move, one unit further
C22_Witness ==
    /\ phase = "done"
    /\ line = <<g1, x1>>
    /\ ~pre.absolute
    /\ pre.pos["X"] # 0
    /\ Len(calls) = 1
    /\ m.pos["X"] = pre.pos["X"] + (IF m.units_mm THEN Scale ELSE 25400)

\* --------------------------------- properties of the arc, call by call
\* an arc line has reached the arc handler
ArcLineRun ==
    /\ variant = "planar"
    /\ gcode.set
    /\ gcode.val \in {2, 3}
    /\ phase \in {"arc", "done"}

\* the end point the loop is heading for
ArcTarget == [X |-> arc.ex, Y |-> arc.ey]

\* while the loop runs the position is the start point; every call of the arc
\* is a feed move at the one resolved feed; and the line followed call by
\* call ends as exec on the whole line does
HeldDuringArc ==
    /\ phase = "arc" =>
           /\ m.pos = pre.pos
           /\ exc = "none"
           /\ \A i \in 1..Len(MoveCalls) : MoveCalls[i].feed = arc.feed
    /\ ArcLineRun =>
           /\ \A i \in 1..Len(MoveCalls) :
                  /\ ~MoveCalls[i].rapid
                  /\ MoveCalls[i].feed = ExpectedFeed
           /\ (phase = "done" /\ exc = "driver_error") => m.pos = pre.pos
           /\ phase = "done" =>
                  LET whole == exec(Start(pre, drv, variant, failAt), line)
                  IN  /\ m = whole.m
                      /\ calls = whole.calls
                      /\ exc = whole.exc

\* the position changes during an arc in one step only: after the last call
\* has returned, to the end point
CommittedAfterLoop ==
    (phase = "arc" /\ m'.pos # m.pos) =>
        /\ MovesMade = arc.steps
        /\ exc = "none"
        /\ calls' = calls
        /\ phase' = "done"
        /\ m'.pos = ArcTarget

\* C23: during a G2/G3 line the position stays at the start point of the arc
\* across all its move_abs calls and becomes the end point only after the last
\* call has returned; each of the calls has rapid = false and the same feed.
C23_PositionHeldDuringArc == []HeldDuringArc /\ [][CommittedAfterLoop]_vars

\* half way round a circle that ends away from where it started
C23_Witness ==
    /\ phase = "arc"
    /\ arc.radius > 0
    /\ MovesMade >= 6
    /\ MovesMade < arc.steps
    /\ ArcTarget # m.pos
    /\ MoveCalls[Len(MoveCalls)].axes # m.pos
    /\ m.pos = pre.pos
    /\ pre.pos["Y"] # 0

\* the offset word of the line in millimetres, zero without the word
OffsetMm(letter) == IF Has(letter) THEN InMm(Value(letter)) ELSE 0

\* the centre the claim gives: the position before the line plus (I, J)
ExpectedCentre ==
    [X |-> pre.pos["X"] + OffsetMm("I"), Y |-> pre.pos["Y"] + OffsetMm("J")]

\* C24: the centre of an arc is the current position plus the I and J words
\* in millimetres, an absent word counting as zero, in absolute as in relative
\* mode; the end point is the word value in absolute mode, the current position
\* plus the word value in relative mode, the current position without a word.
\* Each call of the arc goes to a point around that centre, and the end point
\* is what the line leaves as position.
C24_ArcCentreIncremental ==
    /\ phase = "arc" =>
           /\ arc.cx = ExpectedCentre["X"]
           /\ arc.cy = ExpectedCentre["Y"]
           /\ ArcTarget = ExpectedTargets
           /\ MovesMade > 0 =>
                  MoveCalls[MovesMade].axes =
                      ArcPoint(ExpectedCentre["X"], ExpectedCentre["Y"],
                               arc.radius, arc.start, arc.sweep, arc.steps,
                               MovesMade)
    /\ (ArcLineRun /\ phase = "done" /\ exc = "none") =>
           m.pos = ExpectedTargets

\* a relative arc in inches, off the origin, with an X and an I word
C24_Witness ==
    /\ phase = "arc"
    /\ ~m.absolute
    /\ ~m.units_mm
    /\ Has("I")
    /\ Has("X")
    /\ pre.pos["X"] # 0
    /\ MovesMade = arc.steps
    /\ arc.cx = pre.pos["X"] - 2540
    /\ arc.ex = pre.pos["X"] + 25400

\* ------------------------------------------- properties of the modal frame
\* the line is not the homing command and has no G word with a motion code
NoMotionWord ==
    /\ Len(line) > 0
    /\ ~StartsWithHome(line)
    /\ \A i \in Parseable("G") :
           Trunc(float(Words[i].v).val) \notin motion_g_codes(variant)

\* the places of the G words with one of the two codes
WordsWithCode(a, b) ==
    {i \in Parseable("G") : float(Words[i].v).val \in {a * Scale, b * Scale}}

\* whether the last of these words, at least one being there, has code b
LastIs(a, b) ==
    LET at == WordsWithCode(a, b)
    IN  float(Words[CHOOSE i \in at : \A j \in at : j <= i].v).val = b * Scale

\* C25: on a line without a motion code each modal field keeps its value
\* unless the line has a word for it: the coordinate mode follows the last
\* G90/G91 word, the unit flag the last G20/G21 word, the feed is the value of
\* the last F word as written; the position is not changed, and neither feed
\* nor position is rescaled by a unit word.
C25_ModalFrame ==
    (phase = "done" /\ NoMotionWord) =>
        /\ exc = "none"
        /\ m.pos = pre.pos
        /\ m.absolute = IF WordsWithCode(90, 91) = {} THEN pre.absolute
                        ELSE LastIs(91, 90)
        /\ m.units_mm = IF WordsWithCode(20, 21) = {} THEN pre.units_mm
                        ELSE LastIs(20, 21)
        /\ m.feed = IF Has("F") THEN Value("F") ELSE pre.feed
        /\ MoveCalls = <<>>

\* "G91 G20" on an interpreter in millimetres and absolute mode, off the
\* origin, its feed set by an earlier line
C25_Witness ==
    /\ phase = "done"
    /\ line = <<G91, G20>>
    /\ pre.absolute
    /\ pre.units_mm
    /\ pre.pos["X"] # 0
    /\ pre.feed = 600 * Scale
    /\ m = [pre EXCEPT !.absolute = FALSE, !.units_mm = FALSE]

\* ---------------------------------- properties of the simulation driver
\* C26: with the simulation driver, after every exec call that returns, the
\* position the interpreter stores is the position the driver tracks.
C26_SimDriverInStep ==
    (drv.kind = "sim" /\ phase # "arc" /\ exc = "none") =>
        \A a \in AxisSet(variant) : Near(m.pos[a], drv.cur[a])

\* ------------------------------------------ properties of the motion mode
\* the line has a word for an axis of the variant
AxisWord == \E a \in AxisSet(variant) : Has(a)

\* C27: the motion mode does not carry over: a line with axis words and no
\* G word of a motion code makes no move_abs call and leaves the position as
\* it was, whatever line came before.
C27_MotionNotModal ==
    (phase = "done" /\ AxisWord /\ NoMotionWord) =>
        /\ MoveCalls = <<>>
        /\ m.pos = pre.pos
        /\ ~gcode.set

\* "X1 Y.5" after the carriage has been moved away from that point
C27_Witness ==
    /\ phase = "done"
    /\ line = <<X1, Y05>>
    /\ nexec > 1
    /\ pre.pos["X"] # Scale
    /\ pre.pos["Y"] # 0
    /\ calls = <<>>
    /\ m = pre

\* ------------------------------------- properties of the order within a line
\* the flags in force once every modal word of the line is applied, read from
\* the words
FinalUnitsMm ==
    IF WordsWithCode(20, 21) = {} THEN pre.units_mm ELSE LastIs(20, 21)

FinalAbsolute ==
    IF WordsWithCode(90, 91) = {} THEN pre.absolute ELSE LastIs(91, 90)

FinalMm(v) == IF FinalUnitsMm THEN v ELSE (v * 254) \div 10

FinalTarget(a) ==
    IF ~Has(a) THEN pre.pos[a]
    ELSE IF FinalAbsolute THEN FinalMm(Value(a))
    ELSE pre.pos[a] + FinalMm(Value(a))

\* C28: on a line that moves, the unit calls of the line, one for each G20/G21
\* word, all come before the move_abs call, and the move is computed under the
\* unit flag and the coordinate mode left by the last unit and mode words of
\* the line, whether they stand before or after the axis and feed words.
C28_ModalBeforeMotion ==
    (phase = "done" /\ Linear /\ exc = "none") =>
        /\ Len(UnitCalls) = Cardinality(WordsWithCode(20, 21))
        /\ Len(MoveCalls) = 1
        /\ calls = UnitCalls \o MoveCalls
        /\ MoveCalls[1].axes = [a \in AxisSet(variant) |-> FinalTarget(a)]
        /\ MoveCalls[1].feed =
               IF Has("F") THEN FinalMm(Value("F")) ELSE pre.feed

\* "X1 G20 G1" in millimetres: the inch call, then the move to 25.4 mm
C28_Witness ==
    /\ phase = "done"
    /\ line = <<X1, G20, G1>>
    /\ pre.units_mm
    /\ ~pre.absolute
    /\ pre.pos["X"] # 0
    /\ Len(calls) = 2
    /\ calls[1] = Call("set_units_inch")
    /\ calls[2].op = "move_abs"
    /\ calls[2].axes["X"] = pre.pos["X"] + 25400

\* ------------------------------------------ properties of the full circles
\* the arc of the observed line ends where it starts, around a centre that is
\* somewhere else
ClosedArc ==
    /\ ArcRan
    /\ ArcOfLine.ex = pre.pos["X"]
    /\ ArcOfLine.ey = pre.pos["Y"]
    /\ (ArcOfLine.cx # pre.pos["X"] \/ ArcOfLine.cy # pre.pos["Y"])

\* C29: an arc line whose end point is the position before the line, around
\* a centre away from it, sweeps one full turn in its direction: its calls
\* leave the start point, the last one comes back to it, and the position
\* after the line is the position before it.
C29_FullCircle ==
    ClosedArc =>
        /\ ArcOfLine.sweep = (IF gcode.val = 2 THEN -TwoPi ELSE TwoPi)
        /\ ArcOfLine.radius > 0
        /\ Len(MoveCalls) = ArcOfLine.steps
        /\ \E k \in 1..Len(MoveCalls) :
               \E a \in {"X", "Y"} :
                   Abs(MoveCalls[k].axes[a] - pre.pos[a]) >= ArcOfLine.radius
        /\ \A a \in {"X", "Y"} :
               Near(MoveCalls[Len(MoveCalls)].axes[a], pre.pos[a])
        /\ m.pos = pre.pos

\* the circle of grid_circles: from (1, 0), "G2 X1 I-..." ends where it
\* starts, and the far side of the circle is among the calls
C29_Witness ==
    /\ ClosedArc
    /\ line = <<G2, X1, INeg>>
    /\ pre.absolute
    /\ pre.pos["X"] = Scale
    /\ ArcOfLine.sweep = -TwoPi
    /\ \E k \in 1..Len(MoveCalls) :
           Near(MoveCalls[k].axes["X"], 2 * ArcOfLine.cx - pre.pos["X"])
    /\ m.pos = pre.pos

\* --------------------------------------------- properties of the dispatcher
\* the places in the list, up to n, whose configuration the factory makes a
\* job for
RECURSIVE JobsMadeUpTo(_)
JobsMadeUpTo(n) ==
    IF n = 0 THEN <<>>
    ELSE IF create(JobRegistry(variant), job.jobs[n]).made
    THEN Append(JobsMadeUpTo(n - 1), n)
    ELSE JobsMadeUpTo(n - 1)

\* dispatch_jobs returned
Dispatched == job.called /\ ~job.active /\ ~job.raised

\* C30: the dispatcher calls execute for exactly the configurations taken so
\* far that have a registered type, once each and in list order; a
\* configuration without a type, with an empty type or with a type that is
\* not registered makes no call, and the loop goes on behind it: when
\* dispatch_jobs returns, every configuration of the list has been taken.
C30_DispatchInOrder ==
    /\ job.taken <= Len(job.jobs)
    /\ job.executed = JobsMadeUpTo(job.taken)
    /\ \A i, k \in 1..Len(job.executed) :
           i < k => job.executed[i] < job.executed[k]
    /\ job.active => job.taken < Len(job.jobs)
    /\ Dispatched => job.taken = Len(job.jobs)

\* the planar runner with the list gcode (not registered), no type, svg: only
\* the third is executed, and it has fed its line
C30_Witness ==
    /\ Dispatched
    /\ variant = "planar"
    /\ Len(job.jobs) = 3
    /\ Get(job.jobs[1], "type").val = "gcode"
    /\ ~Get(job.jobs[2], "type").set
    /\ Get(job.jobs[3], "type").val = "svg"
    /\ job.executed = <<3>>
    /\ nexec = 1
    /\ calls # <<>>
====
